---- MODULE Spec2Model ----
(***************************************************************************)
(* err-day: one thought per calendar day, locked once submitted.           *)
(*                                                                         *)
(* src/src/app/page.tsx holds two Home components:                         *)
(*   lines 119-341  Home with a draft text and a submit form ("Home"),     *)
(*   lines 457-602  Home whose textarea writes the store directly          *)
(*                  ("Home2" below).                                       *)
(* Both are modelled, each under its own specification (Spec, Spec2), over *)
(* the same variables.  React is modelled as it schedules the code: an     *)
(* event handler runs to completion, the component re-renders, and the     *)
(* effects whose dependencies changed run in declaration order, reading    *)
(* the values captured by that render.                                     *)
(***************************************************************************)
EXTENDS Integers, Sequences, FiniteSets, TLC

(***************************************************************************)
(* Bounds of the model.                                                    *)
(***************************************************************************)
MaxAway == 2        \* navigation stays within MaxAway days of today
MaxSessions == 2    \* page loads in one behaviour
MaxTicks == 1       \* midnights the clock passes in one behaviour

(***************************************************************************)
(* Strings: what String.split, Number and padStart do on the inputs the    *)
(* program gives them.                                                     *)
(***************************************************************************)
Digits == "0123456789"

DigitVal(c) == CHOOSE d \in 0..9 : SubSeq(Digits, d + 1, d + 1) = c

RECURSIVE Number(_)
Number(s) ==
  IF Len(s) = 0 THEN 0
  ELSE 10 * Number(SubSeq(s, 1, Len(s) - 1)) + DigitVal(SubSeq(s, Len(s), Len(s)))

RECURSIVE SplitFrom(_, _, _, _)
SplitFrom(s, sep, start, i) ==
  IF i > Len(s) THEN << SubSeq(s, start, Len(s)) >>
  ELSE IF SubSeq(s, i, i) = sep
       THEN << SubSeq(s, start, i - 1) >> \o SplitFrom(s, sep, i + 1, i + 1)
       ELSE SplitFrom(s, sep, start, i + 1)

Split(s, sep) == SplitFrom(s, sep, 1, 1)

RECURSIVE padStart(_, _, _)
padStart(s, n, c) == IF Len(s) >= n THEN s ELSE padStart(c \o s, n, c)

(***************************************************************************)
(* JavaScript Date, local calendar fields only: [y, m, d] with m in 0..11. *)
(* The constructor and setDate normalise out-of-range months and days.     *)
(***************************************************************************)
IsLeap(y) == (y % 4 = 0 /\ y % 100 # 0) \/ y % 400 = 0

DaysInMonth(y, m) ==
  IF m = 1 THEN (IF IsLeap(y) THEN 29 ELSE 28)
  ELSE IF m \in {3, 5, 8, 10} THEN 30 ELSE 31

RECURSIVE MakeDay(_, _, _)
MakeDay(y, m, d) ==
  IF m < 0 THEN MakeDay(y - 1, m + 12, d)
  ELSE IF m > 11 THEN MakeDay(y + 1, m - 12, d)
  ELSE IF d < 1 THEN
         (IF m = 0 THEN MakeDay(y - 1, 11, d + 31)
          ELSE MakeDay(y, m - 1, d + DaysInMonth(y, m - 1)))
  ELSE IF d > DaysInMonth(y, m) THEN MakeDay(y, m + 1, d - DaysInMonth(y, m))
  ELSE [y |-> y, m |-> m, d |-> d]

NewDate(year, monthIndex, day) ==
  MakeDay(IF year \in 0..99 THEN 1900 + year ELSE year, monthIndex, day)

setDate(date, day) == MakeDay(date.y, date.m, day)

formatDateKey(date) ==
  LET year == date.y
      month == padStart(ToString(date.m + 1), 2, "0")
      day == padStart(ToString(date.d), 2, "0")
  IN  ToString(year) \o "-" \o month \o "-" \o day

parseDateKey(dateKey) ==
  LET parts == Split(dateKey, "-")
      year == Number(parts[1])
      month == Number(parts[2])
      day == Number(parts[3])
  IN  NewDate(year, month - 1, day)

shiftDateKey(dateKey, byDays) ==
  LET nextDate == parseDateKey(dateKey)
  IN  formatDateKey(setDate(nextDate, nextDate.d + byDays))

(***************************************************************************)
(* localStorage and JSON.  A stored item is absent, the empty text, a text *)
(* that is not JSON, or the text of a JSON document; a document is a value *)
(* tagged with its kind.  JSON.parse and JSON.stringify are the library's: *)
(* parse maps a JSON text to the value it denotes and throws on any other  *)
(* text; stringify maps an Entries object to the text of an object whose   *)
(* members are JSON strings.                                               *)
(***************************************************************************)
JNull == [k |-> "null"]
JNum(n) == [k |-> "number", n |-> n]
JStr(s) == [k |-> "string", s |-> s]
JBool(b) == [k |-> "boolean", b |-> b]
JArr(a) == [k |-> "array", a |-> a]
JObj(o) == [k |-> "object", o |-> o]

NoItem == [t |-> "none"]
EmptyText == [t |-> "empty"]
GarbageText == [t |-> "garbage"]
JsonText(v) == [t |-> "json", v |-> v]

JSONparse(raw) ==
  IF raw.t = "json" THEN [threw |-> FALSE, v |-> raw.v] ELSE [threw |-> TRUE]

JSONstringify(value) ==
  JsonText(JObj([key \in DOMAIN value |-> JStr(value[key])]))

\* !value
Falsy(v) ==
  \/ v.k = "null"
  \/ v.k = "number" /\ v.n = 0
  \/ v.k = "string" /\ v.s = ""
  \/ v.k = "boolean" /\ ~v.b

typeof(v) ==
  IF v.k \in {"null", "array", "object"} THEN "object" ELSE v.k

\* Object.entries(parsed) as a function from own key to value; the keys of
\* an array are its indices "0", "1", ...
ObjectEntries(v) ==
  IF v.k = "array"
  THEN [key \in {ToString(i - 1) : i \in 1..Len(v.a)} |->
          v.a[CHOOSE i \in 1..Len(v.a) : ToString(i - 1) = key]]
  ELSE IF v.k = "object" THEN v.o
  ELSE [key \in {} |-> JNull]

EmptyEntries == [key \in {} |-> ""]

\* entries[key] ?? ""
Lookup(store, key) == IF key \in DOMAIN store THEN store[key] ELSE ""

\* { ...previous, [key]: value }
Spread(previous, key, value) ==
  [k \in DOMAIN previous \cup {key} |-> IF k = key THEN value ELSE previous[k]]

\* Mutant: a value is kept when it is a truthy string (if (value && ...)).
loadEntriesTruthy(raw) ==
  IF raw.t \in {"none", "empty"} THEN EmptyEntries
  ELSE LET res == JSONparse(raw) IN
       IF res.threw THEN EmptyEntries
       ELSE IF Falsy(res.v) \/ typeof(res.v) # "object" THEN EmptyEntries
       ELSE LET pairs == ObjectEntries(res.v)
                kept == {key \in DOMAIN pairs :
                           /\ typeof(pairs[key]) = "string"
                           /\ ~Falsy(pairs[key])
                           /\ key # "__proto__"}
            IN  [key \in kept |-> pairs[key].s]

\* Mutant: the test of raw inverted (if (raw) return {}): a stored text is
\* discarded, and parsing a missing or empty one yields nothing to keep.
loadEntriesInverted(raw) == EmptyEntries

\* page.tsx:86-113.  The loop assigns nextEntries[key] = value; on a plain
\* object the key "__proto__" is the prototype setter, which ignores a
\* string, so that member is not stored.
loadEntries(raw) ==
  IF raw.t \in {"none", "empty"} THEN EmptyEntries
  ELSE LET res == JSONparse(raw) IN
       IF res.threw THEN EmptyEntries
       ELSE IF Falsy(res.v) \/ typeof(res.v) # "object" THEN EmptyEntries
       ELSE LET pairs == ObjectEntries(res.v)
                kept == {key \in DOMAIN pairs :
                           typeof(pairs[key]) = "string" /\ key # "__proto__"}
            IN  [key \in kept |-> pairs[key].s]

\* page.tsx:427-451.  Object.fromEntries defines every kept pair as an own
\* property.
loadEntries2(raw) ==
  IF raw.t \in {"none", "empty"} THEN EmptyEntries
  ELSE LET res == JSONparse(raw) IN
       IF res.threw THEN EmptyEntries
       ELSE IF Falsy(res.v) \/ typeof(res.v) # "object" THEN EmptyEntries
       ELSE LET pairs == ObjectEntries(res.v)
                kept == {key \in DOMAIN pairs : typeof(pairs[key]) = "string"}
            IN  [key \in kept |-> pairs[key].s]

(***************************************************************************)
(* Inputs of the model: the date the clock starts on (two days before the  *)
(* end of a leap February, so that navigation and midnight cross the leap  *)
(* day and the month end), the texts the user types, and what localStorage *)
(* may hold when the page is first opened.                                 *)
(***************************************************************************)
StartDates == {NewDate(2024, 1, 28)}

Texts == {"", "a", "b"}

MaxStored == 1      \* members of a stored object or array

StoredKeys(start) == {formatDateKey(start), "x", "__proto__"}

StoredValues == {JStr(""), JStr("a"), JNum(1)}

StoredObjects(start) ==
  UNION {[K -> StoredValues] :
           K \in {S \in SUBSET StoredKeys(start) : Cardinality(S) <= MaxStored}}

StoredArrays ==
  UNION {[1..n -> {JStr("a"), JNum(1)}] : n \in 0..MaxStored}

StoredItems(start) ==
  {NoItem, EmptyText, GarbageText}
    \cup {JsonText(v) : v \in {JNull, JNum(0), JNum(1), JStr("a")}}
    \cup {JsonText(JArr(a)) : a \in StoredArrays}
    \cup {JsonText(JObj(o)) : o \in StoredObjects(start)}

(***************************************************************************)
(* State.                                                                  *)
(***************************************************************************)
VARIABLES
  clock,            \* the local calendar date new Date() returns
  ticks,            \* midnights passed so far
  session,          \* number of the current page load
  storage,          \* localStorage item "err-day:entries:v1"
  todayDateKey,     \* useState("")
  selectedDateKey,  \* useState("")
  entries,          \* useState<Entries>({})
  draftEntry,       \* useState("")
  showSaved,        \* useState(false)
  entriesSet,       \* setEntries was called since the last render
  rendered,         \* the state values captured by the last render
  pending,          \* effects of the last commit still to run, in order
  timer,            \* the 3200 ms timeout of the "saved" notice is armed
  deferred,         \* the render now due was scheduled by an effect or a timer
  loadLog,          \* history: <<[raw, result]>> once this session has loaded
  firstWrite,       \* history: <<item>> first written by this session
  accepted,         \* history: <<T>>, the first text this session accepted
  navigated,        \* history: a navigation button was used in this session
  locked,           \* history: day -> text first accepted for it and saved
  typed,            \* history: <<T>>, the text last typed since the selected
                    \* date or the entry store changed
  call              \* the function applied on its own, its input and result

hooks == <<todayDateKey, selectedDateKey, entries, draftEntry, showSaved, entriesSet>>
react == <<rendered, pending, timer, deferred>>
world == <<clock, ticks, storage>>
history == <<loadLog, firstWrite, accepted, navigated, locked, typed>>
home == <<world, session, hooks, react, history>>
vars == <<home, call>>

NoCall == [fn |-> "none"]

InitialState ==
  [todayDateKey |-> "", selectedDateKey |-> "", entries |-> EmptyEntries,
   draftEntry |-> "", showSaved |-> FALSE]

CurrentState ==
  [todayDateKey |-> todayDateKey, selectedDateKey |-> selectedDateKey,
   entries |-> entries, draftEntry |-> draftEntry, showSaved |-> showSaved]

\* The effects of Home (page.tsx:126-166) and of Home2 (page.tsx:462-475), in
\* declaration order; on mount every effect runs.
HomeEffects == <<"init", "save", "draftSync", "hideSaved", "savedTimer">>
Home2Effects == <<"init2", "save">>

Mount(effects) ==
  /\ todayDateKey = ""
  /\ selectedDateKey = ""
  /\ entries = EmptyEntries
  /\ draftEntry = ""
  /\ showSaved = FALSE
  /\ entriesSet = FALSE
  /\ rendered = InitialState
  /\ pending = effects
  /\ timer = FALSE
  /\ deferred = FALSE
  /\ loadLog = <<>>
  /\ firstWrite = <<>>
  /\ accepted = <<>>
  /\ navigated = FALSE
  /\ typed = <<>>

Start(effects) ==
  /\ clock \in StartDates
  /\ ticks = 0
  /\ session = 1
  /\ storage \in StoredItems(clock)
  /\ locked = [day \in {} |-> ""]
  /\ call = NoCall
  /\ Mount(effects)

Init == Start(HomeEffects)

(***************************************************************************)
(* React: re-render after a state change, then the effects whose           *)
(* dependencies changed.                                                   *)
(***************************************************************************)
Dirty == entriesSet \/ CurrentState # rendered

Quiescent == pending = <<>> /\ ~Dirty

\* An event or a timer is handled between tasks.  A state change made by an
\* event handler is rendered, and its effects are run, before the handler's
\* task ends; a state change made by an effect or a timer is rendered in a
\* later task, and until then the page shows the previous render.  A render
\* shows every state change made before it.
Interactive == pending = <<>> /\ (~Dirty \/ deferred)

\* Mutant: the save effect depends on [todayDateKey] only.
DepsChangedSaveOnce(effect) ==
  CASE effect = "save" -> todayDateKey # rendered.todayDateKey
    [] effect = "draftSync" ->
         entriesSet \/ selectedDateKey # rendered.selectedDateKey
    [] effect = "hideSaved" -> selectedDateKey # rendered.selectedDateKey
    [] effect = "savedTimer" -> showSaved # rendered.showSaved
    [] OTHER -> FALSE

\* Mutant: the draft-sync effect depends on [entries] only.
DepsChangedDraftOnEntries(effect) ==
  CASE effect = "save" ->
         entriesSet \/ todayDateKey # rendered.todayDateKey
    [] effect = "draftSync" -> entriesSet
    [] effect = "hideSaved" -> selectedDateKey # rendered.selectedDateKey
    [] effect = "savedTimer" -> showSaved # rendered.showSaved
    [] OTHER -> FALSE

DepsChanged(effect) ==
  CASE effect = "save" ->
         entriesSet \/ todayDateKey # rendered.todayDateKey
    [] effect = "draftSync" ->
         entriesSet \/ selectedDateKey # rendered.selectedDateKey
    [] effect = "hideSaved" -> selectedDateKey # rendered.selectedDateKey
    [] effect = "savedTimer" -> showSaved # rendered.showSaved
    [] OTHER -> FALSE

Render ==
  /\ pending = <<>>
  /\ Dirty
  /\ rendered' = CurrentState
  /\ pending' = SelectSeq(HomeEffects, DepsChanged)
  /\ entriesSet' = FALSE
  /\ deferred' = FALSE
  /\ UNCHANGED <<call, world, session, todayDateKey, selectedDateKey, entries,
                 draftEntry, showSaved, timer, history>>

RunEffect(effect) ==
  /\ pending # <<>>
  /\ Head(pending) = effect
  /\ pending' = Tail(pending)

getTodayDateKey == formatDateKey(clock)

\* page.tsx:126-133
InitEffect ==
  /\ RunEffect("init")
  /\ LET initialDate == getTodayDateKey
         loadedEntries == loadEntries(storage)
     IN  /\ todayDateKey' = initialDate
         /\ selectedDateKey' = initialDate
         /\ entries' = loadedEntries
         /\ entriesSet' = TRUE
         /\ draftEntry' = Lookup(loadedEntries, initialDate)
         /\ loadLog' = <<[raw |-> storage, result |-> loadedEntries]>>
  /\ deferred' = TRUE
  /\ typed' = <<>>
  /\ UNCHANGED <<call, world, session, showSaved, rendered, timer, firstWrite,
                 accepted, navigated, locked>>

\* Mutant: the save effect without its early return.
SaveWritesAlways(today) == TRUE

\* page.tsx:135-141: the effect returns before writing while todayDateKey
\* is still "".
SaveWrites(today) == today # ""

SaveEffect ==
  /\ RunEffect("save")
  /\ storage' = IF SaveWrites(rendered.todayDateKey)
                THEN JSONstringify(rendered.entries) ELSE storage
  /\ firstWrite' = IF SaveWrites(rendered.todayDateKey) /\ firstWrite = <<>>
                   THEN <<JSONstringify(rendered.entries)>> ELSE firstWrite
  /\ locked' = IF /\ SaveWrites(rendered.todayDateKey)
                  /\ accepted # <<>>
                  /\ rendered.todayDateKey \in DOMAIN rendered.entries
                  /\ rendered.todayDateKey \notin DOMAIN locked
               THEN Spread(locked, rendered.todayDateKey,
                           rendered.entries[rendered.todayDateKey])
               ELSE locked
  /\ UNCHANGED <<call, clock, ticks, session, hooks, rendered, timer, deferred,
                 loadLog, accepted, navigated, typed>>

\* page.tsx:143-149
DraftSyncEffect ==
  /\ RunEffect("draftSync")
  /\ draftEntry' = IF rendered.selectedDateKey = "" THEN draftEntry
                   ELSE Lookup(rendered.entries, rendered.selectedDateKey)
  /\ deferred' = (deferred \/ draftEntry' # draftEntry)
  /\ UNCHANGED <<call, world, session, todayDateKey, selectedDateKey, entries,
                 showSaved, entriesSet, rendered, timer, history>>

\* page.tsx:151-157
HideSavedEffect ==
  /\ RunEffect("hideSaved")
  /\ showSaved' = IF rendered.selectedDateKey = "" THEN showSaved ELSE FALSE
  /\ deferred' = (deferred \/ showSaved' # showSaved)
  /\ UNCHANGED <<call, world, session, todayDateKey, selectedDateKey, entries,
                 draftEntry, entriesSet, rendered, timer, history>>

\* page.tsx:159-166: the cleanup of the previous run clears its timeout, then
\* a new one is set while the notice shows.
SavedTimerEffect ==
  /\ RunEffect("savedTimer")
  /\ timer' = rendered.showSaved
  /\ UNCHANGED <<call, world, session, hooks, rendered, deferred, history>>

\* window.setTimeout(() => setShowSaved(false), 3200)
Timeout ==
  /\ Interactive
  /\ timer
  /\ timer' = FALSE
  /\ showSaved' = FALSE
  /\ deferred' = (deferred \/ showSaved)
  /\ UNCHANGED <<call, world, session, todayDateKey, selectedDateKey, entries,
                 draftEntry, entriesSet, rendered, pending, history>>

(***************************************************************************)
(* Derived values of a render of Home (page.tsx:168-175).                  *)
(***************************************************************************)
isReady == Len(rendered.todayDateKey) > 0

\* Mutant: the comparison with todayDateKey left out.
isTodaySelectedAlways == isReady

isTodaySelected == isReady /\ rendered.selectedDateKey = rendered.todayDateKey

\* Mutant: a truthiness test of the stored text instead of Object.hasOwn.
hasSubmittedTruthy ==
  IF rendered.selectedDateKey # ""
  THEN Lookup(rendered.entries, rendered.selectedDateKey) # ""
  ELSE FALSE

hasSubmittedForSelectedDay ==
  IF rendered.selectedDateKey # ""
  THEN rendered.selectedDateKey \in DOMAIN rendered.entries
  ELSE FALSE

\* Mutant: the lock of a submitted day left out.
isEditableNoLock == isTodaySelected

isEditable == isTodaySelected /\ ~hasSubmittedForSelectedDay

savedEntry ==
  IF rendered.selectedDateKey # ""
  THEN Lookup(rendered.entries, rendered.selectedDateKey)
  ELSE ""

hasUnsavedChanges == rendered.draftEntry # savedEntry

\* Mutant: the button enabled whenever the day is editable.
submitDisabledNoDiff == ~isEditable

\* disabled={!isEditable || !hasUnsavedChanges} (page.tsx:278-282)
submitDisabled == ~isEditable \/ ~hasUnsavedChanges

(***************************************************************************)
(* User events.  The controls exist once isReady (page.tsx:208-213); an    *)
(* event is handled after the effects of the previous commit have run, and *)
(* its handler reads the values of the render the page shows.              *)
(***************************************************************************)
Window == {shiftDateKey(todayDateKey, i) : i \in -MaxAway..MaxAway}

\* page.tsx:216-224
goToPreviousDay ==
  /\ Interactive
  /\ isReady
  /\ shiftDateKey(selectedDateKey, -1) \in Window
  /\ selectedDateKey' = shiftDateKey(selectedDateKey, -1)
  /\ navigated' = TRUE
  /\ deferred' = FALSE
  /\ typed' = <<>>
  /\ UNCHANGED <<call, world, session, todayDateKey, entries, draftEntry, showSaved,
                 entriesSet, rendered, pending, timer, loadLog, firstWrite,
                 accepted, locked>>

\* Mutant: the Today button reads the clock again.
goToTodayFromClock ==
  /\ Interactive
  /\ isReady
  /\ selectedDateKey' = getTodayDateKey
  /\ navigated' = TRUE
  /\ deferred' = (deferred /\ selectedDateKey' = selectedDateKey)
  /\ typed' = IF selectedDateKey' = selectedDateKey THEN typed ELSE <<>>
  /\ UNCHANGED <<call, world, session, todayDateKey, entries, draftEntry, showSaved,
                 entriesSet, rendered, pending, timer, loadLog, firstWrite,
                 accepted, locked>>

\* page.tsx:225-231
goToToday ==
  /\ Interactive
  /\ isReady
  /\ selectedDateKey' = rendered.todayDateKey
  /\ navigated' = TRUE
  /\ deferred' = (deferred /\ selectedDateKey' = selectedDateKey)
  /\ typed' = IF selectedDateKey' = selectedDateKey THEN typed ELSE <<>>
  /\ UNCHANGED <<call, world, session, todayDateKey, entries, draftEntry, showSaved,
                 entriesSet, rendered, pending, timer, loadLog, firstWrite,
                 accepted, locked>>

\* page.tsx:232-240
goToNextDay ==
  /\ Interactive
  /\ isReady
  /\ shiftDateKey(selectedDateKey, 1) \in Window
  /\ selectedDateKey' = shiftDateKey(selectedDateKey, 1)
  /\ navigated' = TRUE
  /\ deferred' = FALSE
  /\ typed' = <<>>
  /\ UNCHANGED <<call, world, session, todayDateKey, entries, draftEntry, showSaved,
                 entriesSet, rendered, pending, timer, loadLog, firstWrite,
                 accepted, locked>>

\* textarea onChange (page.tsx:261-267); the textarea is disabled unless
\* isEditable.
TypeDraft ==
  /\ Interactive
  /\ isReady
  /\ isEditable
  /\ \E value \in Texts \ {rendered.draftEntry} :
       /\ draftEntry' = value
       /\ typed' = <<value>>
  /\ showSaved' = FALSE
  /\ deferred' = FALSE
  /\ UNCHANGED <<call, world, session, todayDateKey, selectedDateKey, entries,
                 entriesSet, rendered, pending, timer, loadLog, firstWrite,
                 accepted, navigated, locked>>

\* page.tsx:177-188
handleThoughtSubmit ==
  IF ~isEditable
  THEN UNCHANGED vars
  ELSE /\ entries' = Spread(entries, rendered.selectedDateKey, rendered.draftEntry)
       /\ entriesSet' = TRUE
       /\ showSaved' = TRUE
       /\ accepted' = IF accepted = <<>> THEN <<rendered.draftEntry>> ELSE accepted
       /\ deferred' = FALSE
       /\ typed' = <<>>
       /\ UNCHANGED <<call, world, session, todayDateKey, selectedDateKey, draftEntry,
                      rendered, pending, timer, loadLog, firstWrite, navigated,
                      locked>>

\* A click on "Capture this thought": a disabled button submits nothing.
Submit ==
  /\ Interactive
  /\ isReady
  /\ IF submitDisabled THEN UNCHANGED vars ELSE handleThoughtSubmit

(***************************************************************************)
(* The environment: midnight passes; the page is closed and opened again.  *)
(***************************************************************************)
Tick ==
  /\ ticks < MaxTicks
  /\ ticks' = ticks + 1
  /\ clock' = setDate(clock, clock.d + 1)
  /\ UNCHANGED <<call, storage, session, hooks, react, history>>

Reload ==
  /\ session < MaxSessions
  /\ session' = session + 1
  /\ todayDateKey' = ""
  /\ selectedDateKey' = ""
  /\ entries' = EmptyEntries
  /\ draftEntry' = ""
  /\ showSaved' = FALSE
  /\ entriesSet' = FALSE
  /\ rendered' = InitialState
  /\ pending' = HomeEffects
  /\ timer' = FALSE
  /\ deferred' = FALSE
  /\ loadLog' = <<>>
  /\ firstWrite' = <<>>
  /\ accepted' = <<>>
  /\ navigated' = FALSE
  /\ typed' = <<>>
  /\ UNCHANGED <<call, world, locked>>

(***************************************************************************)
(* Home2 (page.tsx:457-602): no draft and no submit; the textarea writes   *)
(* the entry of the selected day.  Its save effect (469-475), navigation   *)
(* buttons (507-531) and isReady (477) are the same code as Home's and are *)
(* modelled by the same definitions.                                       *)
(***************************************************************************)
Init2 == Start(Home2Effects)

\* page.tsx:462-467
InitEffect2 ==
  /\ RunEffect("init2")
  /\ LET initialDate == getTodayDateKey
         loadedEntries == loadEntries2(storage)
     IN  /\ todayDateKey' = initialDate
         /\ selectedDateKey' = initialDate
         /\ entries' = loadedEntries
         /\ entriesSet' = TRUE
         /\ loadLog' = <<[raw |-> storage, result |-> loadedEntries]>>
  /\ deferred' = TRUE
  /\ typed' = <<>>
  /\ UNCHANGED <<call, world, session, draftEntry, showSaved, rendered, timer,
                 firstWrite, accepted, navigated, locked>>

Render2 ==
  /\ pending = <<>>
  /\ Dirty
  /\ rendered' = CurrentState
  /\ pending' = SelectSeq(Home2Effects, DepsChanged)
  /\ entriesSet' = FALSE
  /\ deferred' = FALSE
  /\ UNCHANGED <<call, world, session, todayDateKey, selectedDateKey, entries,
                 draftEntry, showSaved, timer, history>>

\* page.tsx:478
isEditable2 == isReady /\ rendered.selectedDateKey = rendered.todayDateKey

\* page.tsx:479
currentEntry ==
  IF rendered.selectedDateKey # ""
  THEN Lookup(rendered.entries, rendered.selectedDateKey)
  ELSE ""

\* textarea onChange (page.tsx:547-563); the textarea is disabled unless
\* isEditable2.
TypeEntry2 ==
  /\ Interactive
  /\ isReady
  /\ isEditable2
  /\ \E value \in Texts \ {currentEntry} :
       entries' = Spread(entries, rendered.selectedDateKey, value)
  /\ entriesSet' = TRUE
  /\ deferred' = FALSE
  /\ typed' = <<>>
  /\ UNCHANGED <<call, world, session, todayDateKey, selectedDateKey, draftEntry,
                 showSaved, rendered, pending, timer, loadLog, firstWrite,
                 accepted, navigated, locked>>

Reload2 ==
  /\ session < MaxSessions
  /\ session' = session + 1
  /\ todayDateKey' = ""
  /\ selectedDateKey' = ""
  /\ entries' = EmptyEntries
  /\ entriesSet' = FALSE
  /\ rendered' = InitialState
  /\ pending' = Home2Effects
  /\ deferred' = FALSE
  /\ loadLog' = <<>>
  /\ firstWrite' = <<>>
  /\ navigated' = FALSE
  /\ typed' = <<>>
  /\ UNCHANGED <<call, world, draftEntry, showSaved, timer, accepted, locked>>

Next2 ==
  \/ Render2
  \/ InitEffect2
  \/ SaveEffect
  \/ goToPreviousDay
  \/ goToToday
  \/ goToNextDay
  \/ TypeEntry2
  \/ Tick
  \/ Reload2

Spec2 == Init2 /\ [][Next2]_vars

Next ==
  \/ Render
  \/ InitEffect
  \/ SaveEffect
  \/ DraftSyncEffect
  \/ HideSavedEffect
  \/ SavedTimerEffect
  \/ Timeout
  \/ goToPreviousDay
  \/ goToToday
  \/ goToNextDay
  \/ TypeDraft
  \/ Submit
  \/ Tick
  \/ Reload

Spec == Init /\ [][Next]_vars

(***************************************************************************)
(* Functions applied on their own.  The component stays as constructed;    *)
(* call records the function applied, its input and its result.            *)
(***************************************************************************)
Unmounted ==
  /\ clock \in StartDates
  /\ ticks = 0
  /\ session = 1
  /\ todayDateKey = ""
  /\ draftEntry = ""
  /\ showSaved = FALSE
  /\ entriesSet = FALSE
  /\ rendered = InitialState
  /\ pending = <<>>
  /\ timer = FALSE
  /\ deferred = FALSE
  /\ loadLog = <<>>
  /\ firstWrite = <<>>
  /\ accepted = <<>>
  /\ navigated = FALSE
  /\ typed = <<>>
  /\ locked = [day \in {} |-> ""]

(***************************************************************************)
(* The entry store saved and loaded (page.tsx:140, 86-113).  The stores    *)
(* are those Home can hold: its keys are dates it submitted and keys its   *)
(* load returned, its values any text.                                     *)
(***************************************************************************)
StoreKeys == {"2024-02-28", "2024-02-29", "x"}

Stores == UNION {[K -> Texts] : K \in SUBSET StoreKeys}

InitStore ==
  /\ Unmounted
  /\ selectedDateKey = ""
  /\ call = NoCall
  /\ storage = NoItem
  /\ entries \in Stores

\* localStorage.setItem(STORAGE_KEY, JSON.stringify(entries)) (page.tsx:140)
SaveStore ==
  /\ storage' = JSONstringify(entries)
  /\ call' = [fn |-> "setItem"]
  /\ UNCHANGED <<clock, ticks, session, hooks, react, history>>

\* loadEntries() (page.tsx:86-113)
LoadStored ==
  /\ call' = [fn |-> "loadEntries", raw |-> storage,
              result |-> loadEntries(storage)]
  /\ UNCHANGED home

NextStore == SaveStore \/ LoadStored

SpecStore == InitStore /\ [][NextStore]_vars

(***************************************************************************)
(* loadEntries on a stored JSON object whose members have values of every  *)
(* JSON type.                                                              *)
(***************************************************************************)
MaxMixed == 2       \* members of the stored object

MixedKeys == {"2024-02-28", "x", "__proto__"}

MixedValues ==
  {JStr(""), JStr("a"), JNum(1), JBool(TRUE), JNull, JObj(EmptyEntries)}

MixedObjects ==
  UNION {[K -> MixedValues] :
           K \in {S \in SUBSET MixedKeys : Cardinality(S) <= MaxMixed}}

InitLoad ==
  /\ Unmounted
  /\ selectedDateKey = ""
  /\ call = NoCall
  /\ entries = EmptyEntries
  /\ storage \in {JsonText(JObj(o)) : o \in MixedObjects}

NextLoad == LoadStored

SpecLoad == InitLoad /\ [][NextLoad]_vars

(***************************************************************************)
(* The selected date shifted day by day (page.tsx:38-42, 216-240), from    *)
(* dates around a leap day, the end of a common February, a 30-day month,  *)
(* a year, the Februaries of 1900 and 2000, and the first day of the year  *)
(* 100, below which the Date constructor reads a year as 1900 + year.      *)
(***************************************************************************)
MaxShifts == 2      \* presses of the two buttons

NavAnchors ==
  {NewDate(2024, 1, 29), NewDate(2023, 1, 28), NewDate(2024, 3, 30),
   NewDate(2024, 11, 31), NewDate(1900, 1, 28), NewDate(2000, 1, 29),
   NewDate(100, 0, 1)}

NavKeys ==
  {formatDateKey(setDate(date, date.d + i)) : date \in NavAnchors, i \in -1..1}

InitNav ==
  /\ Unmounted
  /\ entries = EmptyEntries
  /\ storage = NoItem
  /\ selectedDateKey \in NavKeys
  /\ call = [fn |-> "shiftDateKey", origin |-> selectedDateKey, by |-> <<>>]

\* setSelectedDateKey((previous) => shiftDateKey(previous, -1))
ShiftPrevious ==
  /\ Len(call.by) < MaxShifts
  /\ selectedDateKey' = shiftDateKey(selectedDateKey, -1)
  /\ call' = [call EXCEPT !.by = Append(@, -1)]
  /\ UNCHANGED <<world, session, todayDateKey, entries, draftEntry, showSaved,
                 entriesSet, react, history>>

\* setSelectedDateKey((previous) => shiftDateKey(previous, 1))
ShiftNext ==
  /\ Len(call.by) < MaxShifts
  /\ selectedDateKey' = shiftDateKey(selectedDateKey, 1)
  /\ call' = [call EXCEPT !.by = Append(@, 1)]
  /\ UNCHANGED <<world, session, todayDateKey, entries, draftEntry, showSaved,
                 entriesSet, react, history>>

NextNav == ShiftPrevious \/ ShiftNext

SpecNav == InitNav /\ [][NextNav]_vars

RECURSIVE SumOf(_)
SumOf(seq) == IF seq = <<>> THEN 0 ELSE Head(seq) + SumOf(Tail(seq))

(***************************************************************************)
(* JavaScript numbers in 32-bit operations.  A number n is held as the     *)
(* pair [hi, lo] with n = hi * 2^16 + lo and lo in 0..2^16-1; hi is        *)
(* negative for a negative number and exceeds 2^16-1 for a number above    *)
(* 2^32-1.  The bitwise operators convert their operands with ToInt32 or   *)
(* ToUint32 (both modulo 2^32) and return a signed result, except >>>,     *)
(* whose result is unsigned.                                               *)
(***************************************************************************)
Half == 65536

Word(hi, lo) == [hi |-> hi, lo |-> lo]

ToUint32(n) == Word(n.hi % Half, n.lo)

ToInt32(n) == Word(((n.hi + 32768) % Half) - 32768, n.lo)

RECURSIVE BitXor(_, _)
BitXor(a, b) ==
  IF a = 0 THEN b
  ELSE IF b = 0 THEN a
  ELSE 2 * BitXor(a \div 2, b \div 2) + ((a + b) % 2)

RECURSIVE BitOr(_, _)
BitOr(a, b) ==
  IF a = 0 THEN b
  ELSE IF b = 0 THEN a
  ELSE 2 * BitOr(a \div 2, b \div 2)
         + (IF a % 2 = 1 \/ b % 2 = 1 THEN 1 ELSE 0)

\* the low 16 bits of x * y, for x and y in 0..2^16-1
MulLow(x, y) == (x * (y % 256) + 256 * ((x * (y \div 256)) % 256)) % Half

\* the bits 16.. of x * y, for x and y in 0..2^16-1
MulHigh(x, y) ==
  (x * (y \div 256)) \div 256
    + (x * (y % 256) + 256 * ((x * (y \div 256)) % 256)) \div Half

\* a ^ b
Xor(a, b) ==
  ToInt32(Word(BitXor(ToUint32(a).hi, ToUint32(b).hi), BitXor(a.lo, b.lo)))

\* a | b
Or(a, b) ==
  ToInt32(Word(BitOr(ToUint32(a).hi, ToUint32(b).hi), BitOr(a.lo, b.lo)))

Pow2(bits) == IF bits = 0 THEN 1 ELSE IF bits = 7 THEN 128
              ELSE IF bits = 14 THEN 16384 ELSE 32768

\* a >>> bits, for the shifts of the program: 0, 7, 14 and 15 bits
ShiftRightUnsigned(a, bits) ==
  Word(ToUint32(a).hi \div Pow2(bits),
       a.lo \div Pow2(bits) + (ToUint32(a).hi % Pow2(bits)) * (Half \div Pow2(bits)))

\* Math.imul(a, b): the low 32 bits of the product, read as signed
Math_imul(a, b) ==
  ToInt32(Word((MulHigh(a.lo, b.lo) + MulLow(a.lo, ToUint32(b).hi)
                  + MulLow(ToUint32(a).hi, b.lo)) % Half,
               MulLow(a.lo, b.lo)))

\* a + b, the sum of two numbers (no wrap)
Plus(a, b) == Word(a.hi + b.hi + (a.lo + b.lo) \div Half, (a.lo + b.lo) % Half)

\* a < b
Less(a, b) == a.hi < b.hi \/ (a.hi = b.hi /\ a.lo < b.lo)

(***************************************************************************)
(* hashSeed (page.tsx:53-60).  A string is the sequence of its UTF-16 code *)
(* units, which is what charCodeAt reads.                                  *)
(***************************************************************************)
charCodeAt(s, index) ==
  IF SubSeq(s, index + 1, index + 1) = "-" THEN 45
  ELSE 48 + DigitVal(SubSeq(s, index + 1, index + 1))

CodeUnits(s) == [index \in 1..Len(s) |-> charCodeAt(s, index - 1)]

OffsetBasis == Word(33052, 40389)     \* 2166136261

Prime == Word(256, 403)               \* 16777619

\* one turn of the loop: hash ^= value.charCodeAt(index);
\*                       hash = Math.imul(hash, 16777619)
hashTurn(hash, unit) == Math_imul(Xor(hash, Word(0, unit)), Prime)

RECURSIVE hashLoop(_, _, _)
hashLoop(hash, value, index) ==
  IF index >= Len(value) THEN hash
  ELSE CHOOSE result \in {hashLoop(turned, value, index + 1) :
                            turned \in {hashTurn(hash, value[index + 1])}} : TRUE

hashReturnSigned(hash) == hash

\* return hash >>> 0
hashReturn(hash) == ShiftRightUnsigned(hash, 0)

hashSeed(value) == hashReturn(hashLoop(OffsetBasis, value, 0))

\* hash * 16777619 modulo 2^32 in unsigned arithmetic, 16777619 = 2^24 + 403
TimesPrime(hash) ==
  Word((hash.hi * 403 + (hash.lo * 403) \div Half + (hash.lo % 256) * 256) % Half,
       (hash.lo * 403) % Half)

\* 32-bit FNV-1a in unsigned arithmetic: from the offset basis, each code
\* unit is XORed into the hash, which is then multiplied by the prime
RECURSIVE Fnv1a(_)
Fnv1a(value) ==
  IF value = <<>> THEN OffsetBasis
  ELSE LET hash == Fnv1a(SubSeq(value, 1, Len(value) - 1))
       IN TimesPrime(Word(hash.hi, BitXor(hash.lo, value[Len(value)])))

(***************************************************************************)
(* hashSeed run turn by turn on strings of ASCII and non-ASCII code units  *)
(* (a hyphen, two digits, a high surrogate and 0xFFFF).                    *)
(***************************************************************************)
MaxUnits == 3       \* code units of a hashed string

HashUnits == {45, 50, 56, 55357, 65535}

HashValues == UNION {[1..n -> HashUnits] : n \in 0..MaxUnits}

InitHash ==
  /\ Unmounted
  /\ selectedDateKey = ""
  /\ entries = EmptyEntries
  /\ storage = NoItem
  /\ \E value \in HashValues :
       call = [fn |-> "hashSeed", value |-> value, index |-> 0,
               hash |-> OffsetBasis, negative |-> FALSE]

\* the body of the for loop (page.tsx:55-58)
hashStep ==
  /\ call.fn = "hashSeed"
  /\ call.index < Len(call.value)
  /\ call' = [call EXCEPT
                !.hash = hashTurn(call.hash, call.value[call.index + 1]),
                !.index = call.index + 1,
                !.negative =
                  call.negative
                    \/ hashTurn(call.hash, call.value[call.index + 1]).hi < 0]
  /\ UNCHANGED home

\* return hash >>> 0 (page.tsx:59)
hashDone ==
  /\ call.fn = "hashSeed"
  /\ call.index >= Len(call.value)
  /\ call' = [fn |-> "return", value |-> call.value,
              result |-> hashReturn(call.hash), negative |-> call.negative]
  /\ UNCHANGED home

NextHash == hashStep \/ hashDone

SpecHash == InitHash /\ [][NextHash]_vars

(***************************************************************************)
(* mulberry32 (page.tsx:62-71).  The closure's state is a number the       *)
(* closure only adds to; the fraction it returns is held as its numerator  *)
(* k, the returned number being k / 4294967296.                            *)
(***************************************************************************)
Increment == Word(27947, 31221)       \* 0x6d2b79f5

\* the generator is created once and shared by every call
mulberry32Shared(seed) == IF call.results = <<>> THEN seed ELSE call.state

\* let state = seed
mulberry32(seed) == seed

\* the two mixing statements and the return expression, before the division
mix(state) ==
  LET first == Math_imul(Xor(state, ShiftRightUnsigned(state, 15)),
                         Or(state, Word(0, 1)))
      next == Xor(first,
                  Plus(first,
                       Math_imul(Xor(first, ShiftRightUnsigned(first, 7)),
                                 Or(first, Word(0, 61)))))
  IN ShiftRightUnsigned(Xor(next, ShiftRightUnsigned(next, 14)), 0)

\* one call of the closure: the state it leaves and the numerator it returns
random(state) ==
  [state |-> Plus(state, Increment), value |-> mix(Plus(state, Increment))]

(***************************************************************************)
(* generateDailyArt (page.tsx:73-84).                                      *)
(***************************************************************************)
ART_CELLS == 400

DAILY_COLORS ==
  <<"#ef4444", "#f97316", "#f59e0b", "#84cc16", "#10b981", "#06b6d4",
    "#3b82f6", "#6366f1", "#ec4899">>

\* array[index]
At(array, index) ==
  IF index + 1 \in DOMAIN array THEN array[index + 1] ELSE "undefined"

\* Math.round in place of Math.floor
colorIndexRounded(value, length) ==
  (2 * (value.hi * length + (value.lo * length) \div Half) + Half)
    \div (2 * Half)

\* Math.floor(random() * length): k / 2^32 and its product with a length
\* below 2^21 are exact in a double, so this is floor(k * length / 2^32)
colorIndex(value, length) ==
  (value.hi * length + (value.lo * length) \div Half) \div Half

Threshold == Word(40632, 20972)       \* the least k with k / 2^32 > 0.62

isPaintedAtHalf(value) == ~Less(value, Word(32768, 1))

\* random() > 0.62
isPainted(value) == ~Less(value, Threshold)

cellIdByColumn(dateKey, index) == dateKey \o "-" \o ToString(index % 20)

\* `${dateKey}-${index}`
cellId(dateKey, index) == dateKey \o "-" \o ToString(index)

(***************************************************************************)
(* Calls of generateDailyArt, one after another (the function is           *)
(* synchronous), on two date keys.  call.results keeps what each finished  *)
(* call returned, with the numerator of its first draw.                    *)
(***************************************************************************)
MaxCalls == 3       \* calls of generateDailyArt in one behaviour

ArtKeys == {"2024-02-08", "2024-02-27"}

InitArt ==
  /\ Unmounted
  /\ selectedDateKey = ""
  /\ entries = EmptyEntries
  /\ storage = NoItem
  /\ call = [fn |-> "idle", state |-> Word(0, 0), results |-> <<>>]

\* const random = mulberry32(hashSeed(dateKey));
\* const color = DAILY_COLORS[Math.floor(random() * DAILY_COLORS.length)]
generateDailyArt ==
  /\ call.fn = "idle"
  /\ Len(call.results) < MaxCalls
  /\ \E dateKey \in ArtKeys :
       LET draw == random(mulberry32(hashSeed(CodeUnits(dateKey))))
       IN call' = [fn |-> "generateDailyArt",
                   dateKey |-> dateKey,
                   state |-> draw.state,
                   first |-> draw.value,
                   color |-> At(DAILY_COLORS,
                                colorIndex(draw.value, Len(DAILY_COLORS))),
                   cells |-> <<>>,
                   results |-> call.results]
  /\ UNCHANGED home

\* the callback of Array.from for the next index (page.tsx:79-82)
paintCell ==
  /\ call.fn = "generateDailyArt"
  /\ Len(call.cells) < ART_CELLS
  /\ LET draw == random(call.state)
     IN call' = [call EXCEPT
                   !.state = draw.state,
                   !.cells =
                     Append(@, [id |-> cellId(call.dateKey, Len(call.cells)),
                                isPainted |-> isPainted(draw.value)])]
  /\ UNCHANGED home

\* return { cells, color }
returnArt ==
  /\ call.fn = "generateDailyArt"
  /\ Len(call.cells) >= ART_CELLS
  /\ call' = [fn |-> "idle",
              state |-> call.state,
              results |-> Append(call.results,
                                 [dateKey |-> call.dateKey,
                                  first |-> call.first,
                                  color |-> call.color,
                                  cells |-> call.cells])]
  /\ UNCHANGED home

NextArt == generateDailyArt \/ paintCell \/ returnArt

SpecArt == InitArt /\ [][NextArt]_vars

\* the state of a generator seeded with seed after n calls, in closed form
StateAfter(seed, n) ==
  Word(seed.hi + n * Increment.hi + (seed.lo + n * Increment.lo) \div Half,
       (seed.lo + n * Increment.lo) % Half)

\* the numerator of the n-th number drawn from a generator seeded with seed
Draw(seed, n) == mix(StateAfter(seed, n))

(***************************************************************************)
(* Properties.                                                             *)
(***************************************************************************)
SameSession == session' = session

\* C1: once this session has accepted text T for today, today stays a key of
\* the store with text T, and every render shows the day as not editable, so
\* no later submission (whatever its draft) replaces T.
C1_SubmitOnce ==
  accepted # <<>> =>
    /\ todayDateKey \in DOMAIN entries
    /\ entries[todayDateKey] = accepted[1]
    /\ ~Dirty => ~isEditable

\* Today was submitted, the user navigated, and today is selected again.
C1_Witness ==
  /\ accepted # <<>>
  /\ Quiescent
  /\ navigated
  /\ rendered.selectedDateKey = rendered.todayDateKey
  /\ rendered.draftEntry = accepted[1]

\* C2: within a session a key of the entry store is never removed and its
\* text never changes.
C2_EntryImmutable ==
  [][SameSession =>
       \A key \in DOMAIN entries :
         key \in DOMAIN entries' /\ entries'[key] = entries[key]]_vars

\* C3: typing and the three navigation buttons leave the entry store
\* unchanged, and a key added to the store during a session is today.
C3_OnlySubmitCreates ==
  [][/\ (TypeDraft \/ TypeEntry2 \/ goToPreviousDay \/ goToToday \/ goToNextDay)
          => entries' = entries
     /\ (SameSession /\ loadLog # <<>>)
          => (DOMAIN entries') \ (DOMAIN entries) \subseteq {todayDateKey}]_vars

\* C4 (Home2): the rendered isEditable holds exactly when the session is
\* initialised, the selected date is today and today is not a key of the store.
C4_EditableIffUnlockedToday2 ==
  ~Dirty =>
    (isEditable2 <=>
       /\ rendered.todayDateKey # ""
       /\ rendered.selectedDateKey = rendered.todayDateKey
       /\ rendered.todayDateKey \notin DOMAIN rendered.entries)

\* C4 as Home (page.tsx:119-341) implements it: the same equivalence for its
\* isEditable, and without isEditable a submit event changes nothing.
Home_EditableIffUnlockedToday ==
  [][/\ ~Dirty =>
          (isEditable <=>
             /\ rendered.todayDateKey # ""
             /\ rendered.selectedDateKey = rendered.todayDateKey
             /\ rendered.todayDateKey \notin DOMAIN rendered.entries)
     /\ (Submit /\ ~isEditable) => UNCHANGED vars]_vars

\* C5 as stated: after the initial load, before any navigation or submission,
\* today is selected and editable; with today-1 selected nothing is editable.
C5_FreshStartEditable ==
  (~Dirty /\ loadLog # <<>> /\ accepted = <<>>) =>
    /\ ~navigated =>
         /\ rendered.selectedDateKey = rendered.todayDateKey
         /\ isEditable
    /\ rendered.selectedDateKey = shiftDateKey(rendered.todayDateKey, -1)
         => ~isEditable

\* C5 amended: after the initial load, before any navigation or submission,
\* today is selected, and it is editable exactly when the loaded store has no
\* entry for today; with today-1 selected nothing is editable.
C5_FreshStartEditableUnlessStored ==
  (~Dirty /\ loadLog # <<>> /\ accepted = <<>>) =>
    /\ ~navigated =>
         /\ rendered.selectedDateKey = rendered.todayDateKey
         /\ isEditable <=> rendered.todayDateKey \notin DOMAIN loadLog[1].result
    /\ rendered.selectedDateKey = shiftDateKey(rendered.todayDateKey, -1)
         => ~isEditable

\* A session that loaded an entry for today, before any navigation.
C5_Witness ==
  /\ Quiescent
  /\ loadLog # <<>>
  /\ accepted = <<>>
  /\ ~navigated
  /\ rendered.todayDateKey \in DOMAIN loadLog[1].result

\* C6: the store changes by a submission only when the day is editable and the
\* draft differs from the stored value of the selected date, and a submit
\* event whose draft equals that value changes neither the store nor anything
\* that triggers a save.
C6_SubmitNeedsChange ==
  [][/\ (SameSession /\ loadLog' = loadLog /\ entries' # entries) =>
          /\ isEditable
          /\ rendered.draftEntry #
               Lookup(rendered.entries, rendered.selectedDateKey)
          /\ entries' =
               Spread(entries, rendered.selectedDateKey, rendered.draftEntry)
     /\ (Submit /\ rendered.draftEntry =
                     Lookup(rendered.entries, rendered.selectedDateKey)) =>
          UNCHANGED <<entries, entriesSet, storage, pending>>]_vars

\* Today is selected and editable, the draft equals the stored value, and the
\* user has been navigating: a submit here is rejected on the draft alone.
C6_Witness ==
  /\ Quiescent
  /\ navigated
  /\ isEditable
  /\ rendered.draftEntry = Lookup(rendered.entries, rendered.selectedDateKey)

\* C7: the persisted item changes only after this session's load has read it,
\* and the first write of a session stores exactly the entries that load
\* returned.
C7_LoadBeforeSave ==
  [][/\ storage' # storage => loadLog # <<>>
     /\ (firstWrite = <<>> /\ firstWrite' # <<>>) =>
          /\ loadLog # <<>>
          /\ firstWrite'[1] = JSONstringify(loadLog[1].result)
          /\ storage' = firstWrite'[1]]_vars

\* A session whose load returned entries has written for the first time.
C7_Witness ==
  /\ firstWrite # <<>>
  /\ loadLog # <<>>
  /\ loadLog[1].result # EmptyEntries
  /\ storage = firstWrite[1]

\* C8: once the session is initialised and no render or effect is pending,
\* the persisted item is the serialisation of the in-memory entry store.
C8_StoreSavedWhenQuiescent ==
  (Quiescent /\ todayDateKey # "") => storage = JSONstringify(entries)

\* A submission was accepted and everything it triggered has run.
C8_Witness ==
  /\ Quiescent
  /\ accepted # <<>>
  /\ storage = JSONstringify(entries)
  /\ storage # loadLog[1].raw

\* C9: a day whose submission was accepted and saved stays locked: in every
\* session whose today is that day, once loaded, the store holds the saved
\* text for it and the day is not editable.
C9_LockPersists ==
  \A day \in DOMAIN locked :
    (todayDateKey = day /\ loadLog # <<>>) =>
      /\ day \in DOMAIN entries
      /\ entries[day] = locked[day]
      /\ ~Dirty => ~isEditable

\* A later session on the day of a saved submission, today selected.
C9_Witness ==
  /\ session > 1
  /\ accepted = <<>>
  /\ Quiescent
  /\ todayDateKey \in DOMAIN locked
  /\ rendered.selectedDateKey = todayDateKey

\* C10: a load of an item that is not JSON, or that is a JSON array, returns
\* the empty store.
C10_CorruptLoadsEmpty ==
  loadLog # <<>> =>
    LET raw == loadLog[1].raw IN
      (raw.t = "garbage" \/ (raw.t = "json" /\ raw.v.k = "array"))
        => loadLog[1].result = EmptyEntries

C12_LoadKeepsStrings ==
  call.fn = "loadEntries" =>
    LET o == call.raw.v.o
        strings == {key \in DOMAIN o : o[key].k = "string"}
    IN  call.result = [key \in strings |-> o[key].s]

\* C12 without the member "__proto__": every other member is kept exactly
\* when its value is a string.
Load_KeepsStringsButProto ==
  call.fn = "loadEntries" =>
    LET o == call.raw.v.o
        strings == {key \in DOMAIN o : o[key].k = "string"}
    IN  call.result = [key \in strings \ {"__proto__"} |-> o[key].s]

\* C13: after presses of Next day and Previous day that cancel out (next
\* then previous, previous then next), the selected date is the original.
C13_NavInverse ==
  (call.by # <<>> /\ SumOf(call.by) = 0) => selectedDateKey = call.origin

\* C13 from the dates of the year 101 and later.
Nav_InverseFromYear101 ==
  (/\ call.by # <<>>
   /\ SumOf(call.by) = 0
   /\ Number(Split(call.origin, "-")[1]) >= 101)
    => selectedDateKey = call.origin

\* C14: once set at session start, todayDateKey is changed by no later step
\* of the session, and the Today button sets the selected date to it and
\* leaves todayDateKey and the entry store unchanged.
C14_TodayFixed ==
  [][/\ (SameSession /\ todayDateKey # "") => todayDateKey' = todayDateKey
     /\ goToToday =>
          /\ selectedDateKey' = todayDateKey
          /\ UNCHANGED <<todayDateKey, entries>>]_vars

\* Midnight has passed during the session and, after navigation, the selected
\* date is the session's today, not the clock's.
C14_Witness ==
  /\ Quiescent
  /\ navigated
  /\ todayDateKey # ""
  /\ todayDateKey # getTodayDateKey
  /\ rendered.selectedDateKey = todayDateKey

\* C15: when today is selected and its stored entry is the empty string, the
\* day is not editable, and no step of the session changes the entry store.
C15_EmptyEntryLocks ==
  [][(/\ todayDateKey \in DOMAIN entries
      /\ entries[todayDateKey] = "")
       => /\ (~Dirty /\ rendered.selectedDateKey = rendered.todayDateKey)
               => ~isEditable
          /\ SameSession => entries' = entries]_vars

\* Today is selected and its loaded entry is the empty string.
C15_Witness ==
  /\ Quiescent
  /\ rendered.selectedDateKey = rendered.todayDateKey
  /\ todayDateKey \in DOMAIN entries
  /\ entries[todayDateKey] = ""

\* the seed of the generator of a call on dateKey
SeedOf(dateKey) == hashSeed(CodeUnits(dateKey))

\* C16: two calls of generateDailyArt with the same dateKey return the same
\* cells (ids and painted flags) and the same colour, whatever calls were
\* made before or between them.
C16_ArtDeterministic ==
  call.fn = "idle" =>
    \A i, j \in DOMAIN call.results :
      call.results[i].dateKey = call.results[j].dateKey =>
        /\ call.results[i].cells = call.results[j].cells
        /\ call.results[i].color = call.results[j].color

\* Two calls on one date key have returned, with a call on the other date
\* key between them.
C16_Witness ==
  /\ call.fn = "idle"
  /\ Len(call.results) = 3
  /\ call.results[1].dateKey = call.results[3].dateKey
  /\ call.results[1].dateKey # call.results[2].dateKey

\* section 4.2 step 2 of the specification: the pattern mode is the second
\* draw scaled onto 0..4
PatternMode(dateKey) == colorIndex(Draw(SeedOf(dateKey), 2), 5)

\* section 4.2 step 2: the base density is the third draw scaled onto
\* [0.16, 0.84]; in thousandths, rounded down
BaseDensity(dateKey) == 160 + (Draw(SeedOf(dateKey), 3).hi * 680) \div Half

C18_FourHundredCells ==
  call.fn = "idle" =>
    \A r \in DOMAIN call.results :
      /\ Len(call.results[r].cells) = 400
      /\ \A i \in 0..399 :
           call.results[r].cells[i + 1].id
             = call.results[r].dateKey \o "-" \o ToString(i)
      /\ Cardinality({call.results[r].cells[i].id :
                        i \in DOMAIN call.results[r].cells}) = 400

\* A call has returned its cells.
C18_Witness ==
  /\ call.fn = "idle"
  /\ call.results # <<>>
  /\ call.results[1].cells # <<>>

\* C19: hashSeed returns the 32-bit FNV-1a hash of the code units of its
\* argument, an integer from 0 to 2^32 - 1, also when a product of the loop
\* was negative as a signed 32-bit integer.
C19_HashIsFnv1a ==
  call.fn = "return" =>
    /\ call.result = Fnv1a(call.value)
    /\ call.result.hi \in 0..(Half - 1)
    /\ call.result.lo \in 0..(Half - 1)

\* hashSeed has returned for a string with a code unit above 255, after a
\* negative intermediate hash.
C19_Witness ==
  /\ call.fn = "return"
  /\ call.negative
  /\ \E i \in DOMAIN call.value : call.value[i] > 255

\* C20: every number the generator returns is k / 2^32 with k from 0 to
\* 2^32 - 1; the colour is DAILY_COLORS[floor(first draw * 9)], with the
\* index in 0..8, so it is one of the 9 palette entries.
C20_ColorInPalette ==
  call.fn = "generateDailyArt" =>
    /\ mix(call.state).hi \in 0..(Half - 1)
    /\ mix(call.state).lo \in 0..(Half - 1)
    /\ call.first = Draw(SeedOf(call.dateKey), 1)
    /\ \E index \in 0..8 :
         /\ index * Half <= call.first.hi * 9 + (call.first.lo * 9) \div Half
         /\ call.first.hi * 9 + (call.first.lo * 9) \div Half < (index + 1) * Half
         /\ call.color = DAILY_COLORS[index + 1]

\* A call whose first draw is in the top ninth, which gives the last colour.
C20_Witness ==
  /\ call.fn = "generateDailyArt"
  /\ call.color = DAILY_COLORS[9]
  /\ call.cells # <<>>

\* C21: once the selected date and the entry store have been rendered and the
\* effects of that render have run, the draft is the entry stored for the
\* selected date, or "" when it has none, unless the user has typed since
\* the selected date or the store last changed; a draft typed for today is
\* therefore dropped by a navigation and is not brought back by the return.
C21_DraftFollowsSelection ==
  (/\ pending = <<>>
   /\ rendered.selectedDateKey # ""
   /\ selectedDateKey = rendered.selectedDateKey
   /\ ~entriesSet)
    => draftEntry = IF typed # <<>> THEN typed[1]
                    ELSE Lookup(entries, selectedDateKey)

\* The render after a navigation away from today still shows a draft typed
\* for today, which was not submitted, and the draft-sync effect of that
\* render has replaced it by "".
C21_Witness ==
  /\ pending = <<"hideSaved">>
  /\ entries = EmptyEntries
  /\ navigated
  /\ rendered.selectedDateKey # rendered.todayDateKey
  /\ rendered.draftEntry # ""
  /\ draftEntry = ""

\* C22: the text an accepted submission stores for today is the text the user
\* typed while today was selected; the draft left by another selected date
\* is never accepted.
C22_AcceptedWasTyped ==
  [][(accepted = <<>> /\ accepted' # <<>>) => typed = <<accepted'[1]>>]_vars

\* A submission made when no render is due stores the text last typed.
Home_AcceptedWasTypedWhenQuiescent ==
  [][(Quiescent /\ accepted = <<>> /\ accepted' # <<>>)
       => typed = <<accepted'[1]>>]_vars
====
